---- MODULE Spec2Model ----
(***************************************************************************)
(* A model of the rat semantic analyzer (analyze(match)): the type         *)
(* relations equivalent/assignable, the Context scope chain, the           *)
(* diagnostics gate must, and the statement handlers of the tree-walking   *)
(* builder.  The depth-first traversal of a program is modelled as the     *)
(* sequence of handler activations it performs: a handler that analyzes a  *)
(* block is an activation on the stack frames while the statements of its  *)
(* block are analyzed.                                                     *)
(***************************************************************************)
EXTENDS Integers, Sequences, FiniteSets, TLC

VARIABLES
  chain,     \* the Context objects reachable from `context` through parent
  frames,    \* activations of handlers whose block is being analyzed
  status,    \* "running", "done" (analyze returned) or "error" (it threw)
  error,     \* the exception analyze threw, NULL when none
  last,      \* what the last handler activation did
  steps,     \* number of statements analyzed so far
  heap,      \* number of composite type objects allocated so far
  tFrom,     \* type relations: first operand
  tTo,       \* type relations: second operand
  verdict    \* type relations: the results computed for (tFrom, tTo)

vars == <<chain, frames, status, error, last, steps, heap, tFrom, tTo, verdict>>

analysisVars == <<chain, frames, status, error, last, steps, heap>>
typeVars == <<tFrom, tTo, verdict>>

(***************************************************************************)
(* JavaScript values that are not objects of the program                   *)
(***************************************************************************)
NULL == [kind |-> "null"]
UNDEF == [kind |-> "undefined"]

(***************************************************************************)
(* Type model.  Primitive types are singletons of core.js; a composite     *)
(* type is an object, and `id` is its identity: two composites built by    *)
(* two constructor calls differ in id even when their fields agree.        *)
(***************************************************************************)
INT == [kind |-> "IntType"]
FLOAT == [kind |-> "FloatType"]
STR == [kind |-> "StringType"]
BOOL == [kind |-> "BoolType"]
ANY == [kind |-> "AnyType"]
VOID == [kind |-> "VoidType"]

PrimitiveTypes == {INT, FLOAT, STR, BOOL, ANY, VOID}

optionalType(baseType, id) ==
  [kind |-> "OptionalType", id |-> id, baseType |-> baseType]

arrayType(baseType, id) ==
  [kind |-> "ArrayType", id |-> id, baseType |-> baseType]

dictionaryType(keyType, valueType, id) ==
  [kind |-> "DictType", id |-> id, keyType |-> keyType, valueType |-> valueType]

functionType(paramTypes, returnType, id) ==
  [kind |-> "FunctionType", id |-> id, paramTypes |-> paramTypes,
   returnType |-> returnType]

\* paramTypes[i] of JavaScript: undefined past the end of the array
At(seq, i) == IF i \in 1..Len(seq) THEN seq[i] ELSE UNDEF

\* t1 === t2: the same primitive singleton or the same object
Identical(t1, t2) == t1 = t2

\* equivalent without the comparison of the two arities
RECURSIVE equivalentAnyArity(_, _)
equivalentAnyArity(t1, t2) ==
  \/ Identical(t1, t2)
  \/ /\ t1.kind = "OptionalType"
     /\ t2.kind = "OptionalType"
     /\ equivalentAnyArity(t1.baseType, t2.baseType)
  \/ /\ t1.kind = "ArrayType"
     /\ t2.kind = "ArrayType"
     /\ equivalentAnyArity(t1.baseType, t2.baseType)
  \/ /\ t1.kind = "FunctionType"
     /\ t2.kind = "FunctionType"
     /\ equivalentAnyArity(t1.returnType, t2.returnType)
     /\ \A i \in 1..Len(t1.paramTypes) :
          equivalentAnyArity(t1.paramTypes[i], At(t2.paramTypes, i))

RECURSIVE equivalent(_, _)
equivalent(t1, t2) ==
  \/ Identical(t1, t2)
  \/ /\ t1.kind = "OptionalType"
     /\ t2.kind = "OptionalType"
     /\ equivalent(t1.baseType, t2.baseType)
  \/ /\ t1.kind = "ArrayType"
     /\ t2.kind = "ArrayType"
     /\ equivalent(t1.baseType, t2.baseType)
  \/ /\ t1.kind = "FunctionType"
     /\ t2.kind = "FunctionType"
     /\ equivalent(t1.returnType, t2.returnType)
     /\ Len(t1.paramTypes) = Len(t2.paramTypes)
     /\ \A i \in 1..Len(t1.paramTypes) :
          equivalent(t1.paramTypes[i], At(t2.paramTypes, i))

\* assignable with the parameter types compared covariantly
RECURSIVE assignableCovariant(_, _)
assignableCovariant(fromType, toType) ==
  \/ toType = ANY
  \/ equivalent(fromType, toType)
  \/ /\ fromType.kind = "FunctionType"
     /\ toType.kind = "FunctionType"
     /\ assignableCovariant(fromType.returnType, toType.returnType)
     /\ Len(fromType.paramTypes) = Len(toType.paramTypes)
     /\ \A i \in 1..Len(toType.paramTypes) :
          assignableCovariant(At(fromType.paramTypes, i), toType.paramTypes[i])

RECURSIVE assignable(_, _)
assignable(fromType, toType) ==
  \/ toType = ANY
  \/ equivalent(fromType, toType)
  \/ /\ fromType.kind = "FunctionType"
     /\ toType.kind = "FunctionType"
     /\ assignable(fromType.returnType, toType.returnType)
     /\ Len(fromType.paramTypes) = Len(toType.paramTypes)
     /\ \A i \in 1..Len(toType.paramTypes) :
          assignable(toType.paramTypes[i], At(fromType.paramTypes, i))

(***************************************************************************)
(* The types the type-relation specification draws its operands from:      *)
(* every type of at most MaxTypeSize constructor nodes over BasePrims,     *)
(* each composite node carrying one of the identities Ids.                 *)
(***************************************************************************)
MaxTypeSize == 3

BasePrims == {INT, FLOAT, ANY}

\* equivalent and assignable compare their two operands position by position,
\* so at one position there are at most two objects: two identities per node
\* produce every way the two operands can share or not share an object
Ids == {1, 2}

RECURSIVE TypesOfSize(_)
TypesOfSize(n) ==
  IF n <= 0 THEN {}
  ELSE IF n = 1 THEN BasePrims
  ELSE
    LET Sub(k) == TypesOfSize(k)
        unary == UNION {{optionalType(b, i), arrayType(b, i)} :
                          <<b, i>> \in Sub(n - 1) \X Ids}
        nullary == {functionType(<<>>, r, i) : <<r, i>> \in Sub(n - 1) \X Ids}
        binary == UNION {
                    UNION {{dictionaryType(k, v, i), functionType(<<k>>, v, i)} :
                             <<k, v, i>> \in Sub(a) \X Sub(n - 1 - a) \X Ids} :
                    a \in 1..(n - 2)}
    IN unary \cup nullary \cup binary

TypeUniverse == UNION {TypesOfSize(n) : n \in 1..MaxTypeSize}

\* the relations are applied outside any analysis
TypeInit ==
  /\ tFrom \in TypeUniverse
  /\ tTo \in TypeUniverse
  /\ verdict = NULL
  /\ chain = <<>>
  /\ frames = <<>>
  /\ status = "idle"
  /\ error = NULL
  /\ last = [op |-> "none"]
  /\ steps = 0
  /\ heap = 0

\* equivalent is applied to the pair in both orders and to each operand itself
ApplyEquivalent ==
  /\ verdict = NULL
  /\ verdict' = [kind |-> "equivalent",
                 forth |-> equivalent(tFrom, tTo),
                 back |-> equivalent(tTo, tFrom),
                 self |-> equivalent(tFrom, tFrom)]
  /\ UNCHANGED <<tFrom, tTo>>

ApplyAssignable ==
  /\ verdict = NULL
  /\ verdict' = [kind |-> "assignable",
                 forth |-> assignable(tFrom, tTo),
                 self |-> assignable(tFrom, tFrom)]
  /\ UNCHANGED <<tFrom, tTo>>

TypeNext ==
  \/ ApplyEquivalent /\ UNCHANGED analysisVars
  \/ ApplyAssignable /\ UNCHANGED analysisVars

SpecTypes == TypeInit /\ [][TypeNext]_vars

(***************************************************************************)
(* JavaScript objects: a plain object and a Map, each with its entries.    *)
(***************************************************************************)
NoEntries == [n \in {} |-> NULL]

PlainObject(props) == [kind |-> "Object", props |-> props]
MapOf(entries) == [kind |-> "Map", entries |-> entries]

\* Object.entries(v): the own enumerable string-keyed properties of v; the
\* entries of a Map are not properties of the Map object
ObjectEntries(v) == IF v.kind = "Object" THEN v.props ELSE NoEntries

MapHas(m, k) == k \in DOMAIN m.entries
MapGet(m, k) == IF k \in DOMAIN m.entries THEN m.entries[k] ELSE UNDEF
MapSet(m, k, v) ==
  MapOf([n \in DOMAIN m.entries \cup {k} |-> IF n = k THEN v ELSE m.entries[n]])

\* { ...a, ...b }: the properties of a overridden by those of b
Spread(a, b) ==
  [k \in DOMAIN a \cup DOMAIN b |-> IF k \in DOMAIN b THEN b[k] ELSE a[k]]

NoProps == [n \in {} |-> NULL]

JSTrue == [kind |-> "boolean", value |-> TRUE]
JSFalse == [kind |-> "boolean", value |-> FALSE]
JSBool(b) == IF b THEN JSTrue ELSE JSFalse

\* the truthiness of a value: null, undefined and false are falsy, every
\* object is truthy
IsTruthy(v) ==
  /\ v.kind \notin {"null", "undefined"}
  /\ v.kind = "boolean" => v.value

(***************************************************************************)
(* Entities and literals, as core.js builds them.                          *)
(***************************************************************************)
variable(name, readOnly, type) ==
  [kind |-> "Variable", name |-> name, readOnly |-> readOnly, type |-> type]

fun(name) == [kind |-> "Function", name |-> name, type |-> UNDEF]

\* the representation of a literal carries the type of its JavaScript value
Literal(type) == [kind |-> "Literal", type |-> type]

\* the table of standard-library entities the root scope is to hold
standardLibrary ==
  PlainObject([pi |-> variable("pi", JSTrue, FLOAT)])

\* the property `type` of a value, undefined when it has none
TypeOf(v) == IF "type" \in DOMAIN v THEN v.type ELSE UNDEF
ReadOnlyOf(v) == IF "readOnly" \in DOMAIN v THEN v.readOnly ELSE UNDEF

(***************************************************************************)
(* Context: chain[i].parent is the index in chain of the parent of         *)
(* chain[i], 0 for none; `context` is the last element of chain.           *)
(***************************************************************************)
Context(arg) ==
  [parent |-> IF "parent" \in DOMAIN arg THEN arg.parent ELSE 0,
   locals |-> MapOf(ObjectEntries(IF "locals" \in DOMAIN arg
                                     THEN arg.locals
                                     ELSE PlainObject(NoEntries))),
   withinLoop |-> FALSE,
   function |-> NULL]

root == Context([locals |-> MapOf(ObjectEntries(standardLibrary))])

\* this.newChildContext(props), `self` being the index of this in the chain
newChildContext(this, self, props) ==
  Context(Spread(Spread(this, props),
                 [parent |-> self, locals |-> MapOf(NoEntries)]))

RECURSIVE lookup(_, _, _)
lookup(ch, i, name) ==
  IF i = 0 THEN UNDEF
  ELSE IF IsTruthy(MapGet(ch[i].locals, name))
         THEN MapGet(ch[i].locals, name)
         ELSE lookup(ch, ch[i].parent, name)

add(ch, i, name, entity) ==
  [ch EXCEPT ![i].locals = MapSet(@, name, entity)]

context == chain[Len(chain)]

\* context = context.newChildContext(props)
Descend(ch, props) ==
  Append(ch, newChildContext(ch[Len(ch)], Len(ch), props))

\* a handler that leaves out context = context.parent
AscendOmitted(ch) == ch

\* context = context.parent, the child's locals being left in the parent's
AscendLeaking(ch) ==
  LET p == ch[Len(ch)].parent
  IN [i \in 1..p |->
        IF i = p
          THEN [ch[i] EXCEPT !.locals =
                  MapOf(Spread(@.entries, ch[Len(ch)].locals.entries))]
          ELSE ch[i]]

\* context = context.parent
Ascend(ch) == SubSeq(ch, 1, ch[Len(ch)].parent)

(***************************************************************************)
(* The diagnostics gate.  An error is the exception analyze throws: `by`   *)
(* tells whether the gate raised it, `at` is the node whose line and       *)
(* column message prefixes the text, `message` the text after the prefix.  *)
(***************************************************************************)
\* the child `child` of the node the handler `rule` is analyzing
Node(rule, child) == [kind |-> "node", rule |-> rule, child |-> child]

must(condition, message, errorLocation) ==
  IF condition THEN NULL
  ELSE [kind |-> "Error", by |-> "must", at |-> errorLocation,
        message |-> message]

\* an exception of the JavaScript runtime: no gate, no locator
RuntimeError(name, message) ==
  [kind |-> name, by |-> "runtime", at |-> NULL, message |-> message]

\* mustNotAlreadyBeDeclared looking the name up through the whole chain
mustNotBeVisible(ch, name, at) ==
  must(~IsTruthy(lookup(ch, Len(ch), name)),
       "Identifier " \o name \o " already declared", at)

\* context being the last scope of ch
mustNotAlreadyBeDeclared(ch, name, at) ==
  must(~MapHas(ch[Len(ch)].locals, name),
       "Identifier " \o name \o " already declared", at)

mustHaveBeenFound(entity, name, at) ==
  must(IsTruthy(entity), "Identifier " \o name \o " not declared", at)

mustHaveBooleanType(e, at) ==
  must(TypeOf(e) = BOOL, "Expected a boolean", at)

mustHaveIntegerType(e, at) ==
  must(TypeOf(e) = INT, "Expected an integer", at)

\* a JavaScript string
JSString(text) == [kind |-> "string", value |-> text]

\* type?.kind: undefined when type is null or undefined or has no such property
KindOf(type) ==
  IF type.kind \in {"undefined", "null", "boolean"} THEN UNDEF
  ELSE JSString(type.kind)

\* a === b
StrictEquals(a, b) == a = b

KindText(k) == IF k = UNDEF THEN "undefined" ELSE k.value

mustHaveIterableType(e, at) ==
  LET k == KindOf(TypeOf(e))
  IN must(\/ StrictEquals(k, JSString("ArrayType"))
          \/ StrictEquals(k, JSString("DictType"))
          \/ StrictEquals(k, STR),
          KindText(k) \o " is not an iterable object", at)

mustBeInLoop(ctx, at) ==
  must(ctx.withinLoop, "Break statement must be inside a loop", at)

mustBeInAFunction(ctx, at) ==
  must(IsTruthy(ctx.function), "Return can only appear in a function", at)

mustBeCallable(e, at) ==
  must(e.kind = "StructType" \/ TypeOf(e).kind = "FunctionType",
       "Call of non-function or non-constructor", at)

mustReturnSomething(f, at) ==
  must(f.type.returnType # VOID, "Cannot return a value from this function", at)

mustHaveCorrectArgumentCount(argCount, paramCount, at) ==
  must(argCount = paramCount,
       ToString(paramCount) \o " argument(s) required but "
         \o ToString(argCount) \o " passed",
       at)

mustNotBeReadOnly(entity, at) ==
  must(~IsTruthy(ReadOnlyOf(entity)), entity.name \o " is read only", at)

\* typeDescription(type) reads type.kind: a TypeError when type is undefined
RECURSIVE DescriptionThrows(_)
DescriptionThrows(type) ==
  \/ type.kind \in {"undefined", "null"}
  \/ type.kind = "FunctionType"
     /\ \/ \E i \in 1..Len(type.paramTypes) : DescriptionThrows(type.paramTypes[i])
        \/ DescriptionThrows(type.returnType)
  \/ type.kind \in {"ArrayType", "OptionalType"} /\ DescriptionThrows(type.baseType)

RECURSIVE typeDescription(_)
typeDescription(type) ==
  LET RECURSIVE Join(_, _)
      Join(ts, i) ==
        IF i > Len(ts) THEN ""
        ELSE (IF i > 1 THEN ", " ELSE "") \o typeDescription(ts[i]) \o Join(ts, i + 1)
  IN CASE type.kind = "IntType" -> "int"
       [] type.kind = "FloatType" -> "float"
       [] type.kind = "StringType" -> "str"
       [] type.kind = "BoolType" -> "bool"
       [] type.kind = "VoidType" -> "void"
       [] type.kind = "AnyType" -> "any"
       [] type.kind = "FunctionType" ->
            "(" \o Join(type.paramTypes, 1) \o ")->" \o typeDescription(type.returnType)
       [] type.kind = "ArrayType" -> "[" \o typeDescription(type.baseType) \o "]"
       [] type.kind = "OptionalType" -> typeDescription(type.baseType) \o "?"
       [] OTHER -> "undefined"

TypeErrorKind ==
  RuntimeError("TypeError", "Cannot read properties of undefined (reading 'kind')")

mustBeAssignable(e, toType, at) ==
  IF DescriptionThrows(TypeOf(e)) \/ DescriptionThrows(toType)
    THEN TypeErrorKind
    ELSE must(assignable(TypeOf(e), toType),
              "Cannot assign a " \o typeDescription(TypeOf(e)) \o " to a "
                \o typeDescription(toType),
              at)

(***************************************************************************)
(* Type syntax.  A declared type is a syntax tree; Stmt_vardec maps its    *)
(* source text with primitiveTypeMapper, Param and FuncDecl evaluate it    *)
(* with the Type_ handlers.  Both allocate the composite objects inner     *)
(* first, the k-th allocation getting identity h + k.                      *)
(***************************************************************************)
Syn(name) == [syn |-> name]
SynOptional(base) == [syn |-> "optional", base |-> base]
SynArray(base) == [syn |-> "array", base |-> base]

SynDict(key, value) == [syn |-> "dict", key |-> key, value |-> value]
SynFunction(param, ret) == [syn |-> "function", param |-> param, ret |-> ret]

RECURSIVE Allocations(_)
Allocations(src) ==
  CASE src.syn \in {"optional", "array"} -> 1 + Allocations(src.base)
    [] src.syn = "dict" -> 1 + Allocations(src.key) + Allocations(src.value)
    [] src.syn = "function" -> 1 + Allocations(src.param) + Allocations(src.ret)
    [] OTHER -> 0

RECURSIVE primitiveTypeMapper(_, _)
primitiveTypeMapper(type, h) ==
  IF type.syn = "optional"
    THEN optionalType(primitiveTypeMapper(type.base, h), h + Allocations(type))
  ELSE IF type.syn = "array"
    THEN arrayType(primitiveTypeMapper(type.base, h), h + Allocations(type))
  ELSE IF type.syn = "dict"
    \* "[k:v]" begins with "[" and ends with "]"; "k:v" names no type
    THEN arrayType(UNDEF, h + Allocations(type))
  ELSE CASE type.syn = "int" -> INT
         [] type.syn = "float" -> FLOAT
         [] type.syn = "str" -> STR
         [] type.syn = "bool" -> BOOL
         [] type.syn = "void" -> VOID
         [] type.syn = "any" -> ANY
         [] OTHER -> UNDEF

RECURSIVE TypeRep(_, _)
TypeRep(type, h) ==
  CASE type.syn = "optional" ->
         optionalType(TypeRep(type.base, h), h + Allocations(type))
    [] type.syn = "array" ->
         arrayType(TypeRep(type.base, h), h + Allocations(type))
    [] type.syn = "dict" ->
         dictionaryType(TypeRep(type.key, h),
                        TypeRep(type.value, h + Allocations(type.key)),
                        h + Allocations(type))
    [] type.syn = "function" ->
         functionType(<<TypeRep(type.param, h)>>,
                      TypeRep(type.ret, h + Allocations(type.param)),
                      h + Allocations(type))
    [] type.syn = "int" -> INT
    [] type.syn = "float" -> FLOAT
    [] type.syn = "str" -> STR
    [] type.syn = "bool" -> BOOL
    [] type.syn = "any" -> ANY
    [] type.syn = "void" -> VOID

(***************************************************************************)
(* Expressions: literals and identifier references.                        *)
(***************************************************************************)
Lit(type) == [exp |-> "literal", type |-> type]
Id(name) == [exp |-> "id", name |-> name]

\* Primary_id
Primary_id(ch, name) ==
  LET entity == lookup(ch, Len(ch), name)
      err == mustHaveBeenFound(entity, name, Node("Primary_id", "id"))
  IN [err |-> err, val |-> entity]

\* exp.rep(): the error it throws or the representation it returns
ExpRep(ch, exp) ==
  IF exp.exp = "literal"
    THEN [err |-> NULL, val |-> Literal(exp.type)]
    ELSE Primary_id(ch, exp.name)

(***************************************************************************)
(* The programs analyzed: every program of at most MaxSteps statements,    *)
(* in blocks nested at most MaxDepth deep, over these names, expressions   *)
(* and declared types.                                                     *)
(***************************************************************************)
MaxSteps == 3
MaxDepth == 2
MaxParams == 2
MaxArgs == MaxParams

DeclNames == {"x", "f"}
InitExprs == {Lit(INT), Id("x")}
TestExprs == {Lit(BOOL), Lit(INT)}
ArgExprs == {Lit(INT), Lit(BOOL)}
NoExp == [exp |-> "none"]
ReturnExprs == {NoExp, Lit(INT), Lit(BOOL)}
Modifiers == {"var", "const"}
ParamTypes == {Syn("int")}
Absent == [syn |-> "absent"]
ReturnTypes == {Absent, Syn("int")}
SeqsUpTo(S, n) == UNION {[1..k -> S] : k \in 0..n}
ParamLists(names) == SeqsUpTo([name : names, type : ParamTypes], MaxParams)
ArgLists == SeqsUpTo(ArgExprs, MaxArgs)

\* IfStmt_elseif has analyzed its block and calls trailingIfStatement.rep()
AwaitsTrailing ==
  /\ frames # <<>>
  /\ frames[Len(frames)].kind = "elseif"
  /\ frames[Len(frames)].phase = "trailing"

CanAnalyze == status = "running" /\ steps < MaxSteps /\ ~AwaitsTrailing
CanOpen == CanAnalyze /\ Len(frames) < MaxDepth

\* an if statement is a statement of a block or the trailing if of an else-if
CanOpenIf == status = "running" /\ steps < MaxSteps /\ Len(frames) < MaxDepth

\* the handler throws err: the exception leaves analyze, whose variable
\* `context` goes out of scope with the scopes it reached
Raise(info, err, h) ==
  /\ status' = "error"
  /\ error' = err
  /\ last' = info
  /\ chain' = <<>>
  /\ heap' = h
  /\ UNCHANGED frames

\* the handler of a statement throws before any block of it is analyzed
Throw(info, err, h) == Raise(info, err, h) /\ steps' = steps + 1

\* the handler returns
Proceed(info, ch, h) ==
  /\ last' = info
  /\ chain' = ch
  /\ heap' = h
  /\ steps' = steps + 1
  /\ UNCHANGED <<status, error, frames>>

\* what each name resolves to from scope i of ch
Names == {"x", "f", "e"}
View(ch, i) == [n \in Names |-> lookup(ch, i, n)]

\* the handler calls block.rep(): frame is its activation, base the position
\* in the chain of the scope that was current when the handler was entered,
\* view what the names resolve to from that scope as the handler leaves it
\* before its first block
Enter(info, ch, frame, h) ==
  /\ last' = info
  /\ chain' = ch
  /\ frames' = Append(frames, frame @@ [base |-> Len(chain),
                                          view |-> View(ch, Len(chain))])
  /\ heap' = h
  /\ steps' = steps + 1
  /\ UNCHANGED <<status, error>>

\* names bound in the local scope and in the scopes around it
BoundLocally(name) == name \in DOMAIN context.locals.entries
BoundOutside(name) ==
  \E i \in 1..(Len(chain) - 1) : name \in DOMAIN chain[i].locals.entries

Stmt_print(exp) ==
  /\ CanAnalyze
  /\ LET e == ExpRep(chain, exp)
         info == [op |-> "print", exp |-> exp]
     IN IF e.err # NULL THEN Throw(info, e.err, heap)
        ELSE Proceed(info, chain, heap)

\* Stmt_vardec with the variable bound before the initializer is analyzed
Stmt_vardecBoundFirst(modifier, id, type, exp) ==
  /\ CanAnalyze
  /\ LET readOnly == JSBool(modifier = "const")
         varType == primitiveTypeMapper(type, heap)
         h == heap + Allocations(type)
         var == variable(id, readOnly, varType)
         dup == mustNotAlreadyBeDeclared(chain, id, Node("Stmt_vardec", "id"))
         bound == add(chain, Len(chain), id, var)
         initializer == ExpRep(bound, exp)
         info == [op |-> "vardec", name |-> id, exp |-> exp,
                  modifier |-> modifier, type |-> type,
                  local |-> BoundLocally(id), outer |-> BoundOutside(id),
                  visible |-> lookup(chain, Len(chain), id),
                  initializer |-> initializer.val]
     IN IF dup # NULL THEN Throw(info, dup, h)
        ELSE IF initializer.err # NULL THEN Throw(info, initializer.err, h)
        ELSE Proceed(info, bound, h)

\* in `last`: visible is what the declared name resolved to before the
\* statement, initializer the representation of exp
Stmt_vardec(modifier, id, type, exp) ==
  /\ CanAnalyze
  /\ LET initializer == ExpRep(chain, exp)
         readOnly == JSBool(modifier = "const")
         varType == primitiveTypeMapper(type, heap)
         h == heap + Allocations(type)
         var == variable(id, readOnly, varType)
         dup == mustNotAlreadyBeDeclared(chain, id, Node("Stmt_vardec", "id"))
         info == [op |-> "vardec", name |-> id, exp |-> exp,
                  modifier |-> modifier, type |-> type,
                  local |-> BoundLocally(id), outer |-> BoundOutside(id),
                  visible |-> lookup(chain, Len(chain), id),
                  initializer |-> initializer.val]
     IN IF initializer.err # NULL THEN Throw(info, initializer.err, heap)
        ELSE IF dup # NULL THEN Throw(info, dup, h)
        ELSE Proceed(info, add(chain, Len(chain), id, var), h)

\* mustNotBeReadOnly(target, { at: id }): no `id` is in scope in Stmt_assign,
\* so evaluating the argument throws before mustNotBeReadOnly is entered
Unbound(name) == RuntimeError("ReferenceError", name \o " is not defined")

Stmt_assign(name, exp) ==
  /\ CanAnalyze
  /\ LET source == ExpRep(chain, exp)
         target == Primary_id(chain, name)
         info == [op |-> "assign", name |-> name, exp |-> exp,
                  target |-> lookup(chain, Len(chain), name)]
     IN IF source.err # NULL THEN Throw(info, source.err, heap)
        ELSE IF target.err # NULL THEN Throw(info, target.err, heap)
        ELSE LET notAssignable ==
                   mustBeAssignable(source.val, TypeOf(target.val),
                                    Node("Stmt_assign", "exp"))
             IN IF notAssignable # NULL THEN Throw(info, notAssignable, heap)
                ELSE Throw(info, Unbound("id"), heap)

Stmt_break ==
  /\ CanAnalyze
  /\ LET err == mustBeInLoop(context, Node("Stmt_break", "breakKeyword"))
         info == [op |-> "break"]
     IN IF err # NULL THEN Throw(info, err, heap)
        ELSE Proceed(info, chain, heap)

\* exp.rep() of a return without expression: the representation of an empty
\* optional node, which has no type
NoExpression == [kind |-> "Array"]

Stmt_return(exp) ==
  /\ CanAnalyze
  /\ LET info == [op |-> "return", exp |-> exp]
         outside == mustBeInAFunction(context, Node("Stmt_return", "returnKeyword"))
     IN IF outside # NULL THEN Throw(info, outside, heap)
        ELSE LET void == mustReturnSomething(context.function,
                                              Node("Stmt_return", "returnKeyword"))
                 e == IF exp # NoExp THEN ExpRep(chain, exp)
                      ELSE [err |-> NULL, val |-> NoExpression]
             IN IF void # NULL THEN Throw(info, void, heap)
                ELSE IF e.err # NULL THEN Throw(info, e.err, heap)
                ELSE LET bad == mustBeAssignable(e.val,
                                  context.function.type.returnType,
                                  Node("Stmt_return", "exp"))
                     IN IF bad # NULL THEN Throw(info, bad, heap)
                        ELSE Proceed(info, chain, heap)

\* Param, for each child of the parameter list in turn
RECURSIVE Params(_, _, _, _)
Params(ch, ps, h, acc) ==
  IF ps = <<>> THEN [err |-> NULL, chain |-> ch, heap |-> h, params |-> acc]
  ELSE LET p == Head(ps)
           param == variable(p.name, JSFalse, TypeRep(p.type, h))
           h2 == h + Allocations(p.type)
           err == mustNotAlreadyBeDeclared(ch, param.name, Node("Param", "id"))
       IN IF err # NULL THEN [err |-> err, chain |-> ch, heap |-> h2, params |-> acc]
          ELSE Params(add(ch, Len(ch), param.name, param), Tail(ps), h2,
                      Append(acc, param))

\* fun.type = t: fun is the object bound to name in scope i and, when the
\* innermost scope keeps a reference to its function, that same object
SetFunType(ch, i, name, t) ==
  [k \in 1..Len(ch) |->
     IF k = i
       THEN [ch[k] EXCEPT !.locals =
               MapSet(@, name, [MapGet(@, name) EXCEPT !.type = t])]
     ELSE IF k = Len(ch) /\ IsTruthy(ch[k].function)
       THEN [ch[k] EXCEPT !.function.type = t]
       ELSE ch[k]]

\* FuncDeclHead with fun.type left unset until the body has been analyzed
FuncDeclHeadTypeAfterBody(ch, h, type, id, parameters) ==
  LET f == fun(id)
      here == Len(ch)
      dup == mustNotAlreadyBeDeclared(ch, id, Node("FuncDecl", "id"))
      declared == add(ch, here, id, f)
      child == Descend(declared, [inLoop |-> JSFalse, function |-> f])
      ps == Params(child, parameters, h, <<>>)
      paramTypes == [i \in 1..Len(ps.params) |-> ps.params[i].type]
      returnType == IF type = Absent THEN VOID ELSE TypeRep(type, ps.heap)
      h2 == ps.heap + (IF type = Absent THEN 0 ELSE Allocations(type)) + 1
      t == functionType(paramTypes, returnType, h2)
  IN IF dup # NULL THEN [err |-> dup, heap |-> h]
     ELSE IF ps.err # NULL THEN [err |-> ps.err, heap |-> ps.heap]
     ELSE [err |-> NULL, heap |-> h2, chain |-> ps.chain,
           fun |-> [f EXCEPT !.type = t]]

\* FuncDecl up to block.rep(): the chain, or the error thrown before
FuncDeclHead(ch, h, type, id, parameters) ==
  LET f == fun(id)
      here == Len(ch)
      dup == mustNotAlreadyBeDeclared(ch, id, Node("FuncDecl", "id"))
      declared == add(ch, here, id, f)
      child == Descend(declared, [inLoop |-> JSFalse, function |-> f])
      ps == Params(child, parameters, h, <<>>)
      paramTypes == [i \in 1..Len(ps.params) |-> ps.params[i].type]
      returnType == IF type = Absent THEN VOID ELSE TypeRep(type, ps.heap)
      h2 == ps.heap + (IF type = Absent THEN 0 ELSE Allocations(type)) + 1
      t == functionType(paramTypes, returnType, h2)
  IN IF dup # NULL THEN [err |-> dup, heap |-> h]
     ELSE IF ps.err # NULL THEN [err |-> ps.err, heap |-> ps.heap]
     ELSE [err |-> NULL, heap |-> h2,
           chain |-> SetFunType(ps.chain, here, id, t),
           fun |-> [f EXCEPT !.type = t]]

FuncDecl(type, id, parameters) ==
  /\ CanOpen
  /\ LET head == FuncDeclHead(chain, heap, type, id, parameters)
         info == [op |-> "funcdecl", name |-> id, parameters |-> parameters,
                  local |-> BoundLocally(id), outer |-> BoundOutside(id)]
     IN IF head.err # NULL THEN Throw(info, head.err, head.heap)
        ELSE Enter(info, head.chain, [kind |-> "FuncDecl", fun |-> head.fun],
                   head.heap)

LoopStmt_while(exp) ==
  /\ CanOpen
  /\ LET test == ExpRep(chain, exp)
         info == [op |-> "while", exp |-> exp]
     IN IF test.err # NULL THEN Throw(info, test.err, heap)
        ELSE LET notBool == mustHaveBooleanType(test.val, Node("LoopStmt_while", "exp"))
             IN IF notBool # NULL THEN Throw(info, notBool, heap)
                ELSE Enter(info, Descend(chain, [inLoop |-> JSTrue]),
                           [kind |-> "while"], heap)

LoopStmt_range(id, exp1, exp2) ==
  /\ CanOpen
  /\ LET low == ExpRep(chain, exp1)
         high == ExpRep(chain, exp2)
         info == [op |-> "range", name |-> id, exp1 |-> exp1, exp2 |-> exp2]
     IN IF low.err # NULL THEN Throw(info, low.err, heap)
        ELSE IF high.err # NULL THEN Throw(info, high.err, heap)
        ELSE LET e1 == mustHaveIntegerType(low.val, Node("LoopStmt_range", "exp1"))
                 e2 == mustHaveIntegerType(high.val, Node("LoopStmt_range", "exp2"))
                 iterator == variable(id, INT, JSTrue)
                 child == Descend(chain, [inLoop |-> JSTrue])
             IN IF e1 # NULL THEN Throw(info, e1, heap)
                ELSE IF e2 # NULL THEN Throw(info, e2, heap)
                ELSE Enter(info, add(child, Len(child), id, iterator),
                           [kind |-> "range"], heap)

\* iterable.rep(): iterable is what exp.rep() returned, an entity or a
\* JavaScript value, which has no rep
NotAFunction(name) == RuntimeError("TypeError", name \o " is not a function")

\* the arguments of core.forStatement are evaluated in order, block.rep()
\* after iterable.rep()
LoopStmt_foreach(iterator, exp) ==
  /\ CanAnalyze
  /\ LET iterable == ExpRep(chain, exp)
         info == [op |-> "foreach", name |-> iterator, exp |-> exp,
                  type |-> TypeOf(iterable.val)]
     IN IF iterable.err # NULL THEN Throw(info, iterable.err, heap)
        ELSE LET notIterable == mustHaveIterableType(
                                  iterable.val, Node("LoopStmt_foreach", "exp"))
             IN IF notIterable # NULL THEN Throw(info, notIterable, heap)
                ELSE Throw(info, NotAFunction("iterable.rep"), heap)

IfStmt_if(exp) ==
  /\ CanOpenIf
  /\ LET test == ExpRep(chain, exp)
         info == [op |-> "if", exp |-> exp]
     IN IF test.err # NULL THEN Throw(info, test.err, heap)
        ELSE LET notBool == mustHaveBooleanType(test.val, Node("IfStmt_if", "exp"))
             IN IF notBool # NULL THEN Throw(info, notBool, heap)
                ELSE Enter(info, Descend(chain, NoProps), [kind |-> "if"], heap)

IfStmt_else(exp) ==
  /\ CanOpenIf
  /\ LET test == ExpRep(chain, exp)
         info == [op |-> "ifelse", exp |-> exp]
     IN IF test.err # NULL THEN Throw(info, test.err, heap)
        ELSE LET notBool == mustHaveBooleanType(test.val, Node("IfStmt_else", "exp"))
             IN IF notBool # NULL THEN Throw(info, notBool, heap)
                ELSE Enter(info, Descend(chain, NoProps),
                           [kind |-> "ifelse", block |-> 1], heap)

\* the arguments in order: exp.rep(), then mustBeAssignable to targetTypes[i]
RECURSIVE Arguments(_, _, _, _)
Arguments(ch, exps, targetTypes, i) ==
  IF i > Len(exps) THEN NULL
  ELSE LET arg == ExpRep(ch, exps[i])
       IN IF arg.err # NULL THEN arg.err
          ELSE LET bad == mustBeAssignable(arg.val, At(targetTypes, i),
                                           Node("Call", "exp"))
               IN IF bad # NULL THEN bad
                  ELSE Arguments(ch, exps, targetTypes, i + 1)

\* id.rep() in Call: the grammar makes the callee an identifier reference,
\* resolved through the scope chain
CalleeRep(ch, id) == Primary_id(ch, id)

\* Call with the arguments analyzed and checked before they are counted
CallArgumentsFirst(ch, id, exps) ==
  LET callee == CalleeRep(ch, id)
  IN IF callee.err # NULL THEN callee.err
     ELSE LET notCallable == mustBeCallable(callee.val, Node("Call", "id"))
          IN IF notCallable # NULL THEN notCallable
             ELSE LET targetTypes == callee.val.type.paramTypes
                      bad == Arguments(ch, exps, targetTypes, 1)
                  IN IF bad # NULL THEN bad
                     ELSE mustHaveCorrectArgumentCount(
                            Len(exps), Len(targetTypes), Node("Call", "args"))

\* the error Call throws, NULL when it returns
Call(ch, id, exps) ==
  LET callee == CalleeRep(ch, id)
  IN IF callee.err # NULL THEN callee.err
     ELSE LET notCallable == mustBeCallable(callee.val, Node("Call", "id"))
          IN IF notCallable # NULL THEN notCallable
             ELSE LET targetTypes == callee.val.type.paramTypes
                      count == mustHaveCorrectArgumentCount(
                                 Len(exps), Len(targetTypes), Node("Call", "args"))
                  IN IF count # NULL THEN count
                     ELSE Arguments(ch, exps, targetTypes, 1)

Stmt_call(id, exps) ==
  /\ CanAnalyze
  /\ LET err == Call(chain, id, exps)
         info == [op |-> "call", name |-> id, args |-> exps,
                  callee |-> lookup(chain, Len(chain), id),
                  local |-> BoundLocally(id)]
     IN IF err # NULL THEN Throw(info, err, heap)
        ELSE Proceed(info, chain, heap)

IfStmt_elseif(exp) ==
  /\ CanOpenIf
  /\ LET test == ExpRep(chain, exp)
         info == [op |-> "elseif", exp |-> exp]
     IN IF test.err # NULL THEN Throw(info, test.err, heap)
        ELSE LET notBool == mustHaveBooleanType(test.val, Node("IfStmt_elseif", "exp"))
             IN IF notBool # NULL THEN Throw(info, notBool, heap)
                ELSE Enter(info, Descend(chain, NoProps),
                           [kind |-> "elseif", phase |-> "block"], heap)

\* TryStmt_catch up to block1.rep()
TryStmt_catch(parameters) ==
  /\ CanOpen
  /\ Enter([op |-> "try", parameters |-> parameters], Descend(chain, NoProps),
           [kind |-> "try", block |-> 1, parameters |-> parameters], heap)

\* TryStmt_timeout up to block1.rep()
TryStmt_timeout(parameters) ==
  /\ CanOpen
  /\ Enter([op |-> "timeout", parameters |-> parameters], Descend(chain, NoProps),
           [kind |-> "timeout", block |-> 1, parameters |-> parameters], heap)

\* the activations that return together: the trailing if of an else-if is
\* the last thing IfStmt_elseif analyzes
RECURSIVE Unwind(_)
Unwind(fs) ==
  IF fs # <<>> /\ fs[Len(fs)].kind = "elseif" /\ fs[Len(fs)].phase = "trailing"
    THEN Unwind(SubSeq(fs, 1, Len(fs) - 1))
    ELSE fs

\* the handler on top of frames goes on to its next block
NextBlock(ch, frame, h) ==
  /\ chain' = ch
  /\ frames' = Append(SubSeq(frames, 1, Len(frames) - 1), frame)
  /\ heap' = h
  /\ last' = [op |-> "blockend", kind |-> frame.kind, returned |-> {}]
  /\ UNCHANGED <<status, error, steps>>

\* the handler on top of frames returns
Return(ch) ==
  LET rest == Unwind(SubSeq(frames, 1, Len(frames) - 1))
  IN /\ chain' = ch
     /\ frames' = rest
     /\ last' = [op |-> "blockend", kind |-> frames[Len(frames)].kind,
                 returned |-> {frames[i] : i \in (Len(rest) + 1)..Len(frames)}]
     /\ UNCHANGED <<status, error, steps, heap>>

\* block.rep() returns to the handler that called it, which runs to its end
\* or to its next block
BlockEnd ==
  /\ status = "running"
  /\ frames # <<>>
  /\ ~AwaitsTrailing
  /\ LET top == frames[Len(frames)]
         up == Ascend(chain)
         info == [op |-> "blockend", kind |-> top.kind, returned |-> {}]
     IN CASE top.kind = "ifelse" /\ top.block = 1 ->
               NextBlock(Descend(up, NoProps), [top EXCEPT !.block = 2], heap)
          [] top.kind = "elseif" ->
               NextBlock(up, [top EXCEPT !.phase = "trailing"], heap)
          [] top.kind = "try" /\ top.block = 1 ->
               \* parameters.rep() in the second child context
               LET ps == Params(Descend(up, NoProps), top.parameters, heap, <<>>)
               IN IF ps.err # NULL
                    THEN Raise(info, ps.err, ps.heap) /\ UNCHANGED steps
                    ELSE NextBlock(ps.chain, [top EXCEPT !.block = 2], ps.heap)
          [] top.kind = "try" /\ top.block = 2 ->
               \* block3.rep(): no block3 is in scope in TryStmt_catch
               Raise(info, Unbound("block3"), heap) /\ UNCHANGED steps
          [] top.kind = "timeout" /\ top.block = 1 ->
               NextBlock(Descend(up, NoProps), [top EXCEPT !.block = 2], heap)
          [] top.kind = "timeout" /\ top.block = 2 ->
               \* parameters.rep(), then block3.rep(), after context = context.parent
               LET ps == Params(up, top.parameters, heap, <<>>)
               IN IF ps.err # NULL
                    THEN Raise(info, ps.err, ps.heap) /\ UNCHANGED steps
                    ELSE NextBlock(ps.chain, [top EXCEPT !.block = 3], ps.heap)
          [] top.kind = "timeout" /\ top.block = 3 -> Return(chain)
          [] OTHER -> Return(up)

\* Program: every statement analyzed, analyze returns
ProgramEnd ==
  /\ status = "running"
  /\ frames = <<>>
  /\ status' = "done"
  /\ last' = [op |-> "program", scopes |-> Len(chain)]
  /\ chain' = <<>>
  /\ UNCHANGED <<frames, error, steps, heap>>

Init ==
  /\ chain = <<root>>
  /\ frames = <<>>
  /\ status = "running"
  /\ error = NULL
  /\ last = [op |-> "none"]
  /\ steps = 0
  /\ heap = 0
  /\ tFrom = INT
  /\ tTo = INT
  /\ verdict = NULL

Next ==
  \/ \E e \in {Id("x"), Id("pi")} : Stmt_print(e) /\ UNCHANGED typeVars
  \/ \E m \in Modifiers, id \in DeclNames, e \in InitExprs :
       Stmt_vardec(m, id, Syn("int"), e) /\ UNCHANGED typeVars
  \/ \E n \in {"x", "pi"}, e \in {Lit(INT), Lit(BOOL)} :
       Stmt_assign(n, e) /\ UNCHANGED typeVars
  \/ Stmt_break /\ UNCHANGED typeVars
  \/ \E e \in ReturnExprs : Stmt_return(e) /\ UNCHANGED typeVars
  \/ \E t \in ReturnTypes, id \in DeclNames, ps \in ParamLists({"x"}) :
       FuncDecl(t, id, ps) /\ UNCHANGED typeVars
  \/ \E e \in TestExprs : LoopStmt_while(e) /\ UNCHANGED typeVars
  \/ \E e1 \in TestExprs, e2 \in TestExprs :
       LoopStmt_range("x", e1, e2) /\ UNCHANGED typeVars
  \/ \E e \in TestExprs : IfStmt_if(e) /\ UNCHANGED typeVars
  \/ \E e \in TestExprs : IfStmt_else(e) /\ UNCHANGED typeVars
  \/ BlockEnd /\ UNCHANGED typeVars
  \/ ProgramEnd /\ UNCHANGED typeVars

Spec == Init /\ [][Next]_vars

\* programs of function declarations, variable declarations and calls
CallNext ==
  \/ \E ps \in ParamLists(DeclNames) : FuncDecl(Absent, "f", ps) /\ UNCHANGED typeVars
  \/ \E m \in Modifiers, id \in DeclNames :
       Stmt_vardec(m, id, Syn("int"), Lit(INT)) /\ UNCHANGED typeVars
  \/ \E n \in DeclNames, as \in ArgLists : Stmt_call(n, as) /\ UNCHANGED typeVars
  \/ BlockEnd /\ UNCHANGED typeVars
  \/ ProgramEnd /\ UNCHANGED typeVars

SpecCalls == Init /\ [][CallNext]_vars


\* programs of nested blocks of every statement form that opens scopes
BlockNext ==
  \/ Stmt_vardec("var", "x", Syn("int"), Lit(INT)) /\ UNCHANGED typeVars
  \/ \E n \in {"x", "e"} : Stmt_print(Id(n)) /\ UNCHANGED typeVars
  \/ \E ps \in ParamLists({"x"}) : FuncDecl(Absent, "f", ps) /\ UNCHANGED typeVars
  \/ LoopStmt_while(Lit(BOOL)) /\ UNCHANGED typeVars
  \/ LoopStmt_range("x", Lit(INT), Lit(INT)) /\ UNCHANGED typeVars
  \/ IfStmt_if(Lit(BOOL)) /\ UNCHANGED typeVars
  \/ IfStmt_else(Lit(BOOL)) /\ UNCHANGED typeVars
  \/ IfStmt_elseif(Lit(BOOL)) /\ UNCHANGED typeVars
  \/ \E ps \in ParamLists({"e"}) : TryStmt_catch(ps) /\ UNCHANGED typeVars
  \/ \E ps \in ParamLists({"e"}) : TryStmt_timeout(ps) /\ UNCHANGED typeVars
  \/ BlockEnd /\ UNCHANGED typeVars
  \/ ProgramEnd /\ UNCHANGED typeVars

SpecBlocks == Init /\ [][BlockNext]_vars

\* the declared types of the expressions a for-in statement iterates over
IterableSyntax ==
  {Syn("int"), Syn("float"), Syn("bool"), Syn("str"), SynArray(Syn("int")),
   SynOptional(Syn("int")), SynDict(Syn("str"), Syn("int")),
   SynFunction(Syn("int"), Syn("int"))}

\* variables and parameters of these types, and for-in statements over them
\* and over literals
IterNext ==
  \/ \E t \in {Syn("int"), Syn("str"), SynArray(Syn("int")), SynOptional(Syn("int"))} :
       Stmt_vardec("var", "x", t, Lit(INT)) /\ UNCHANGED typeVars
  \/ \E t \in IterableSyntax :
       FuncDecl(Absent, "f", <<[name |-> "x", type |-> t]>>) /\ UNCHANGED typeVars
  \/ \E e \in {Id("x"), Id("f"), Lit(STR), Lit(INT), Lit(BOOL)} :
       LoopStmt_foreach("i", e) /\ UNCHANGED typeVars
  \/ BlockEnd /\ UNCHANGED typeVars
  \/ ProgramEnd /\ UNCHANGED typeVars

SpecIter == Init /\ [][IterNext]_vars

(***************************************************************************)
(* Properties.  `frames` tells which handlers enclose the statement the    *)
(* last activation analyzed; `last` tells what that statement was and what *)
(* the scopes held when its handler was entered.                           *)
(***************************************************************************)
LoopKinds == {"while", "range"}
BranchKinds == {"if", "ifelse"}

NoLoopEncloses == \A i \in 1..Len(frames) : frames[i].kind \notin LoopKinds

\* the statement is in a loop body, or in if branches nested in a loop body
InLoopBody ==
  \E i \in 1..Len(frames) :
    /\ frames[i].kind \in LoopKinds
    /\ \A j \in (i + 1)..Len(frames) : frames[j].kind \in BranchKinds

EnclosingFunctions == {i \in 1..Len(frames) : frames[i].kind = "FuncDecl"}

\* the innermost function declaration whose body is being analyzed
InnermostFunction ==
  frames[CHOOSE i \in EnclosingFunctions : \A j \in EnclosingFunctions : j <= i].fun

Rejected == status = "error" /\ error.by = "must"
RejectedWith(message) == Rejected /\ error.message = message

\* C1: a break with no enclosing loop is rejected by the gate, and a break in
\* a loop body, also inside if branches nested in that body, is accepted
C1_BreakLegalInsideLoops ==
  last.op = "break" =>
    /\ NoLoopEncloses => Rejected
    /\ InLoopBody => status = "running"

\* C2: a return with no enclosing function declaration is rejected as being
\* outside a function; a return anywhere in a function's body passes that
\* check, and `return <int literal>` in a function declared to return int is
\* accepted
C2_ReturnLegalInsideFunctions ==
  last.op = "return" =>
    LET outside == RejectedWith("Return can only appear in a function")
    IN /\ EnclosingFunctions = {} => outside
       /\ EnclosingFunctions # {} => ~outside
       /\ ( /\ EnclosingFunctions # {}
            /\ InnermostFunction.type.returnType = INT
            /\ last.exp = Lit(INT) ) => status = "running"

VoidnessMessages ==
  {"Something should be returned", "Cannot return a value from this function"}

AlreadyDeclared(rule, name) ==
  status = "error"
    /\ error = must(FALSE, "Identifier " \o name \o " already declared",
                    Node(rule, "id"))

\* the initializer or an operand names an identifier no scope binds
Undeclared == Rejected /\ error.at = Node("Primary_id", "id")

Repeats(ps) == \E i, j \in 1..Len(ps) : i < j /\ ps[i].name = ps[j].name

ParamCollision(ps) ==
  \E j \in 1..Len(ps) :
    /\ \E i \in 1..(j - 1) : ps[i].name = ps[j].name
    /\ AlreadyDeclared("Param", ps[j].name)

\* C4: a variable or function declaration is rejected as a redeclaration
\* exactly when its name is bound in the local scope, a parameter exactly
\* when an earlier parameter of the list has its name; a binding in an outer
\* scope rejects nothing
C4_RejectedOnlyForLocalCollision ==
  /\ last.op = "vardec" =>
       /\ Undeclared \/ (AlreadyDeclared("Stmt_vardec", last.name) <=> last.local)
       /\ status = "error" =>
            Undeclared \/ AlreadyDeclared("Stmt_vardec", last.name)
  /\ last.op = "funcdecl" =>
       /\ AlreadyDeclared("FuncDecl", last.name) <=> last.local
       /\ ~last.local => (ParamCollision(last.parameters) <=> Repeats(last.parameters))
       /\ status = "error" =>
            AlreadyDeclared("FuncDecl", last.name) \/ ParamCollision(last.parameters)

\* a declaration shadowing a name of an outer scope was accepted
C4_ShadowingAccepted ==
  /\ last.op \in {"vardec", "funcdecl"}
  /\ last.outer
  /\ ~last.local
  /\ status = "running"

\* a call, in the body of the function on top of frames, of that function's
\* name, the body's scope not binding the name itself
SelfCall ==
  /\ last.op = "call"
  /\ frames # <<>>
  /\ frames[Len(frames)].kind = "FuncDecl"
  /\ frames[Len(frames)].fun.name = last.name
  /\ ~last.local

ArgumentsFit(args, paramTypes) ==
  /\ Len(args) = Len(paramTypes)
  /\ \A i \in 1..Len(args) : assignable(args[i].type, paramTypes[i])

\* C5: a call of the function's own name in its body resolves to the
\* Function entity of the declaration, whose function type is already set,
\* and is accepted exactly when the arguments fit that type's parameters
C5_SelfCallResolvesToDeclaredFunction ==
  SelfCall =>
    LET f == frames[Len(frames)].fun
    IN /\ f.type.kind = "FunctionType"
       /\ last.callee = f
       /\ status = "running" <=> ArgumentsFit(last.args, f.type.paramTypes)

\* a self-call with at least one argument was accepted
C5_SelfCallAccepted ==
  SelfCall /\ status = "running" /\ Len(last.args) >= 1

StdlibNames == DOMAIN standardLibrary.props

\* some scope below the root binds the name
Shadowed(name) ==
  \E i \in 2..Len(chain) : name \in DOMAIN chain[i].locals.entries

\* C6: while the program is traversed, every name of the standard library
\* that no scope below the root shadows resolves, from the current scope, to
\* its standard-library entity
C6_RootScopeHoldsStandardLibrary ==
  status = "running" =>
    \A name \in StdlibNames :
      ~Shadowed(name) =>
        lookup(chain, Len(chain), name) = standardLibrary.props[name]

CalleeIsFunction ==
  last.op = "call" /\ TypeOf(last.callee).kind = "FunctionType"

CountMessage(paramCount, argCount) ==
  ToString(paramCount) \o " argument(s) required but "
    \o ToString(argCount) \o " passed"

\* C7: a call of a function is accepted only with as many arguments as the
\* function has parameters; with any other number it is rejected with the
\* message naming both counts, whatever its arguments are
C7_CountCheckedBeforeArguments ==
  CalleeIsFunction =>
    LET paramCount == Len(last.callee.type.paramTypes)
        argCount == Len(last.args)
    IN /\ status = "running" => argCount = paramCount
       /\ argCount # paramCount =>
            /\ RejectedWith(CountMessage(paramCount, argCount))
            /\ error.at = Node("Call", "args")

\* a call with a wrong number of arguments, one of them not assignable to
\* any parameter, was rejected
C7_WrongCountWithBadArgument ==
  /\ CalleeIsFunction
  /\ Len(last.args) # Len(last.callee.type.paramTypes)
  /\ \E i \in 1..Len(last.args) : last.args[i] = Lit(BOOL)
  /\ status = "error"

\* C8: equivalent(t, t) holds and equivalent(a, b) = equivalent(b, a), for
\* all types a, b of the universe
C8_EquivalentReflexiveSymmetric ==
  verdict.kind = "equivalent" =>
    /\ verdict.self
    /\ verdict.forth = verdict.back

\* two function types that are different objects were found equivalent
C8_DistinctFunctionsEquivalent ==
  /\ verdict.kind = "equivalent"
  /\ tFrom.kind = "FunctionType"
  /\ tTo.kind = "FunctionType"
  /\ tFrom # tTo
  /\ Len(tFrom.paramTypes) = 1
  /\ verdict.forth
  /\ verdict.back

IsFunction(t, paramTypes, returnType) ==
  /\ t.kind = "FunctionType"
  /\ t.paramTypes = paramTypes
  /\ t.returnType = returnType

\* from and to are function types of one arity, from's return type is
\* assignable to to's, and each parameter type of to to that of from
FunctionVariance(fromType, toType) ==
  /\ fromType.kind = "FunctionType"
  /\ toType.kind = "FunctionType"
  /\ Len(fromType.paramTypes) = Len(toType.paramTypes)
  /\ assignable(fromType.returnType, toType.returnType)
  /\ \A i \in 1..Len(toType.paramTypes) :
       assignable(toType.paramTypes[i], fromType.paramTypes[i])

\* C9: assignable(from, to) holds exactly when to is any, or from and to are
\* equivalent, or they are function types related by FunctionVariance; so
\* every type is assignable to itself, (int)->float is assignable to
\* (int)->any, and (float)->int is not assignable to (int)->int
C9_AssignableCharacterized ==
  verdict.kind = "assignable" =>
    /\ verdict.forth <=>
         (tTo = ANY \/ equivalent(tFrom, tTo) \/ FunctionVariance(tFrom, tTo))
    /\ verdict.self
    /\ (IsFunction(tFrom, <<INT>>, FLOAT) /\ IsFunction(tTo, <<INT>>, ANY))
         => verdict.forth
    /\ (IsFunction(tFrom, <<FLOAT>>, INT) /\ IsFunction(tTo, <<INT>>, INT))
         => ~verdict.forth

\* a function type was assignable to another by variance alone, its
\* parameter type differing from the other's
C9_AssignableByVariance ==
  /\ verdict.kind = "assignable"
  /\ verdict.forth
  /\ tTo # ANY
  /\ ~equivalent(tFrom, tTo)
  /\ Len(tFrom.paramTypes) = 1
  /\ tFrom.paramTypes[1] # tTo.paramTypes[1]

\* C10: whenever analyze throws, the exception is an error raised by must,
\* located at a node of the tree
C10_EveryFailureRaisedByGate ==
  status = "error" => (error.by = "must" /\ error.at.kind = "node")

\* the target of the assignment is a variable of a declared primitive type
AssignsToVariable ==
  /\ last.op = "assign"
  /\ last.target.kind = "Variable"
  /\ last.target.type \in PrimitiveTypes
  /\ last.exp.exp = "literal"

\* C11: an assignment of a literal to a declared variable is accepted exactly
\* when the variable is not read-only and the literal's type is assignable to
\* the variable's type; otherwise it is rejected by the gate, as not
\* assignable or as a write to a read-only variable
C11_AssignmentAcceptedIffWritableAndAssignable ==
  AssignsToVariable =>
    LET fits == assignable(last.exp.type, last.target.type)
        writable == ~IsTruthy(last.target.readOnly)
    IN /\ status = "running" <=> (fits /\ writable)
       /\ ~fits => RejectedWith("Cannot assign a " \o typeDescription(last.exp.type)
                                  \o " to a " \o typeDescription(last.target.type))
       /\ (fits /\ ~writable) => RejectedWith(last.target.name \o " is read only")

\* the scope the block being analyzed is analyzed in lies this far below the
\* scope that was current when the handler on top of frames was entered
BlockDepth(frame) ==
  IF \/ frame.kind = "timeout" /\ frame.block = 3
     \/ frame.kind = "elseif" /\ frame.phase = "trailing"
    THEN 0
    ELSE 1

\* C12: when the handler of a statement that opens scopes returns, the
\* current scope is the one that was current when it was entered; while a
\* block is analyzed the current scope is fixed by the handler analyzing it,
\* every scope's parent is the scope before it, and at the end of the
\* program the current scope is the root
C12_CursorRestoredOnReturn ==
  /\ last.op = "blockend" =>
       \A frame \in last.returned : Len(chain) = frame.base
  /\ status = "running" =>
       /\ \A i \in 1..Len(chain) : chain[i].parent = i - 1
       /\ Len(chain) = IF frames = <<>> THEN 1
                       ELSE frames[Len(frames)].base + BlockDepth(frames[Len(frames)])
  /\ status = "done" => last.scopes = 1

\* an else-if and its trailing if returned together, the scope current
\* before the else-if being current again
C12_ElseIfReturnedWithTrailingIf ==
  /\ last.op = "blockend"
  /\ status = "running"
  /\ Cardinality(last.returned) >= 2
  /\ \E frame \in last.returned : frame.kind = "elseif" /\ frame.base = Len(chain)

TryKinds == {"try", "timeout"}

\* the catch block of the try statement on top of frames is being analyzed
InCatchBlock ==
  /\ status = "running"
  /\ frames # <<>>
  /\ \/ frames[Len(frames)].kind = "try" /\ frames[Len(frames)].block = 2
     \/ frames[Len(frames)].kind = "timeout" /\ frames[Len(frames)].block = 3

\* C13: every block of a try statement is analyzed in a child scope of its
\* own; while the catch block is analyzed the catch parameters are bound in
\* its scope; when the statement has been analyzed every name resolves from
\* the enclosing scope as it did before
C13_CatchParametersLocalToCatchBlock ==
  /\ ( /\ status = "running"
       /\ frames # <<>>
       /\ frames[Len(frames)].kind \in TryKinds )
       => Len(chain) = frames[Len(frames)].base + 1
  /\ InCatchBlock =>
       \A i \in 1..Len(frames[Len(frames)].parameters) :
         LET name == frames[Len(frames)].parameters[i].name
         IN /\ MapHas(context.locals, name)
            /\ context.parent = frames[Len(frames)].base
  /\ last.op = "blockend" =>
       \A frame \in last.returned :
         frame.kind \in TryKinds => View(chain, Len(chain)) = frame.view

ScopedKinds == {"FuncDecl", "while", "range", "if", "ifelse", "elseif"}

\* C17: when the handler of a function declaration, a while, a for-range or
\* an if statement returns, every name resolves from the enclosing scope to
\* what it resolved to when the handler was entered (the function's own name
\* to the function): to the outer binding, or to nothing
C17_NoEntityOutlivesItsScope ==
  last.op = "blockend" =>
    \A frame \in last.returned :
      frame.kind \in ScopedKinds => View(chain, Len(chain)) = frame.view

\* a function with a parameter x has been analyzed where no x is bound
C17_ParameterGoneAfterFunction ==
  /\ last.op = "blockend"
  /\ status = "running"
  /\ \E frame \in last.returned :
       /\ frame.kind = "FuncDecl"
       /\ Len(frame.fun.type.paramTypes) >= 1
       /\ frame.view["x"] = UNDEF
       /\ lookup(chain, Len(chain), "x") = UNDEF

\* C14: a for-range statement is accepted exactly when both bounds have type
\* int, and its variable is then bound in the child scope of the body as a
\* read-only variable of type int
C14_RangeVariableIsReadOnlyInt ==
  (last.op = "range" /\ last.exp1.exp = "literal" /\ last.exp2.exp = "literal") =>
    /\ status = "running" <=> (last.exp1.type = INT /\ last.exp2.type = INT)
    /\ status = "running" =>
         LET iterator == MapGet(context.locals, last.name)
         IN /\ context.parent = Len(chain) - 1
            /\ iterator.kind = "Variable"
            /\ iterator.type = INT
            /\ iterator.readOnly = JSTrue

IterableKinds == {"ArrayType", "DictType"}

\* C15: a for-in statement whose iterated expression resolves is rejected as
\* not iterable exactly when the expression's type is neither an array type
\* nor a dict type nor str
C15_IterableIffArrayDictOrString ==
  (last.op = "foreach" /\ ~Undeclared) =>
    LET notIterable == Rejected /\ error.at = Node("LoopStmt_foreach", "exp")
    IN notIterable <=> ~(last.type.kind \in IterableKinds \/ last.type = STR)

SameShape(t1, t2) == t1.kind = t2.kind /\ t1 # t2

\* C16: two composite types that are different objects are equivalent
\* exactly when their components are: dict types when their key types and
\* their value types are equivalent, optional and array types when their
\* base types are
C16_CompositesComparedStructurally ==
  (verdict.kind = "equivalent" /\ SameShape(tFrom, tTo)) =>
    /\ tFrom.kind = "DictType" =>
         (verdict.forth <=> /\ equivalent(tFrom.keyType, tTo.keyType)
                            /\ equivalent(tFrom.valueType, tTo.valueType))
    /\ tFrom.kind \in {"OptionalType", "ArrayType"} =>
         (verdict.forth <=> equivalent(tFrom.baseType, tTo.baseType))

\* the initializer of the declaration is the declared name itself
SelfReference == last.op = "vardec" /\ last.exp = Id(last.name)

====
